---- MODULE Spec2Model ----
(***************************************************************************)
(* A model of kittylyst's metric aggregator (metric.py) and reference      *)
(* engine (engine.py).                                                     *)
(*                                                                         *)
(* Numbers: the metric's floats are modelled as exact rationals, with the  *)
(* not-a-number sentinel np.nan and the irrational results of np.sqrt as   *)
(* values of their own.  Rounding is not modelled.  A division of Python   *)
(* floats by zero raises ZeroDivisionError.                                *)
(***************************************************************************)
EXTENDS Integers, Sequences, FiniteSets, TLC

VARIABLES
    kind,             \* the metric's class: "AverageMetric" or "AccuracyMetric"
    metric,           \* the metric object's fields
    hist,             \* history: the (value, num_samples) pairs passed to
                      \*   AverageMetric.update since construction or reset
    pre,              \* history: the metric's fields before the last operation
    mlast,            \* history: the last metric operation, its inputs and outcome
    was_reset,        \* history: a reset() has followed at least one update
    checkpoint_dump,  \* Engine._checkpoint_dump: <<>> while the attribute is
                      \*   not set, <<c>> once it holds c
    saved,            \* history: per path, the checkpoint last passed to
                      \*   save_checkpoint under it (<<>>: never saved)
    eprev,            \* history: the engine call before the last one
    elast             \* history: the last engine call, its inputs and outcome

vars == <<kind, metric, hist, pre, mlast, was_reset,
          checkpoint_dump, saved, eprev, elast>>
metricVars == <<kind, metric, hist, pre, mlast, was_reset>>
engineVars == <<checkpoint_dump, saved, eprev, elast>>

----------------------------------------------------------------------------
(* Bounds of the model *)

\* updates of an AverageMetric, and of an AccuracyMetric, between two resets
MaxUpdates == 3
MaxAccUpdates == 2

----------------------------------------------------------------------------
(* Numbers *)

Abs(x) == IF x < 0 THEN -x ELSE x

RECURSIVE GCD(_, _)
GCD(a, b) == IF b = 0 THEN a ELSE GCD(b, a % b)

\* np.nan
NaN == [k |-> "nan", num |-> 0, den |-> 0]

\* The rational a/b (b # 0) in lowest terms with a positive denominator.
Rat(a, b) ==
    LET g == GCD(Abs(a), Abs(b))
        s == IF b < 0 THEN -1 ELSE 1
    IN [k |-> "rat", num |-> (s * a) \div g, den |-> Abs(b) \div g]

Zero == Rat(0, 1)
FromInt(i) == Rat(i, 1)

FAdd(x, y) ==
    IF x.k # "rat" \/ y.k # "rat" THEN NaN
    ELSE Rat(x.num * y.den + y.num * x.den, x.den * y.den)

FSub(x, y) ==
    IF x.k # "rat" \/ y.k # "rat" THEN NaN
    ELSE Rat(x.num * y.den - y.num * x.den, x.den * y.den)

FMul(x, y) ==
    IF x.k # "rat" \/ y.k # "rat" THEN NaN
    ELSE Rat(x.num * y.num, x.den * y.den)

\* x / y for y # 0 (the callers raise ZeroDivisionError before dividing by 0)
FDiv(x, y) ==
    IF x.k # "rat" \/ y.k # "rat" THEN NaN
    ELSE Rat(x.num * y.den, x.den * y.num)

IsSquare(i) == \E r \in 0..i : r * r = i
IntSqrt(i) == CHOOSE r \in 0..i : r * r = i

\* np.sqrt: exact where the root is rational, a surd [k |-> "sqrt"] standing for
\* sqrt(num/den) where it is not, nan for a negative or nan argument.
Sqrt(x) ==
    IF x.k # "rat" \/ x.num < 0 THEN NaN
    ELSE IF IsSquare(x.num) /\ IsSquare(x.den)
         THEN Rat(IntSqrt(x.num), IntSqrt(x.den))
         ELSE [k |-> "sqrt", num |-> x.num, den |-> x.den]

----------------------------------------------------------------------------
(* metric.py: AverageMetric, AccuracyMetric *)

NoError == ""

\* AverageMetric.__init__
Construct(compute_on_call) ==
    [compute_on_call |-> compute_on_call,
     n |-> 0,
     value |-> Zero,
     mean |-> NaN,
     mean_old |-> Zero,
     m_s |-> Zero,
     std |-> NaN,
     num_samples |-> 0]

\* AverageMetric.reset, with one field forgotten
ResetKeepsMeanOld(self) ==
    [self EXCEPT !.n = 0, !.value = Zero, !.mean = NaN,
                 !.m_s = Zero, !.std = NaN, !.num_samples = 0]

\* AverageMetric.reset
Reset(self) ==
    [self EXCEPT !.n = 0,
                 !.value = Zero,
                 !.mean = NaN,
                 !.mean_old = Zero,
                 !.m_s = Zero,
                 !.std = NaN,
                 !.num_samples = 0]

\* AverageMetric.update whose first branch leaves std as it was
AverageUpdateStaleStd(self, value, num_samples) ==
    LET s1 == [self EXCEPT !.value = value, !.n = self.n + 1,
                           !.num_samples = self.num_samples + num_samples]
    IN IF s1.n = 1
       THEN [obj |-> [s1 EXCEPT !.mean = FAdd(Zero, value),
                                !.mean_old = FAdd(Zero, value), !.m_s = Zero],
             err |-> NoError]
       ELSE [obj |-> s1, err |-> NoError]

\* AverageMetric.update with the unweighted running mean (weight 1 per update)
AverageUpdateUnweighted(self, value, num_samples) ==
    LET s1 == [self EXCEPT !.value = value, !.n = self.n + 1,
                           !.num_samples = self.num_samples + num_samples]
        mean == FAdd(s1.mean_old,
                     FDiv(FSub(value, s1.mean_old), FromInt(s1.n)))
    IN IF s1.n = 1
       THEN [obj |-> [s1 EXCEPT !.mean = FAdd(Zero, value), !.std = Zero,
                                !.mean_old = FAdd(Zero, value), !.m_s = Zero],
             err |-> NoError]
       ELSE [obj |-> [s1 EXCEPT !.mean = mean, !.mean_old = mean],
             err |-> NoError]

\* AverageMetric.update whose std divides by the number of updates less one
AverageUpdateCountDivisor(self, value, num_samples) ==
    LET s1 == [self EXCEPT !.value = value,
                           !.n = self.n + 1,
                           !.num_samples = self.num_samples + num_samples]
    IN IF s1.n = 1
       THEN [obj |-> [s1 EXCEPT !.mean = FAdd(Zero, value),
                                !.std = Zero,
                                !.mean_old = FAdd(Zero, value),
                                !.m_s = Zero],
             err |-> NoError]
       ELSE IF s1.num_samples = 0
       THEN [obj |-> s1, err |-> "ZeroDivisionError"]
       ELSE
       LET mean == FAdd(s1.mean_old,
                        FDiv(FMul(FSub(value, s1.mean_old), FromInt(num_samples)),
                             FromInt(s1.num_samples)))
           m_s == FAdd(s1.m_s,
                       FMul(FMul(FSub(value, s1.mean_old), FSub(value, mean)),
                            FromInt(num_samples)))
           s2 == [s1 EXCEPT !.mean = mean, !.m_s = m_s, !.mean_old = mean]
       IN [obj |-> [s2 EXCEPT !.std = Sqrt(FDiv(m_s, FromInt(s1.n - 1)))],
           err |-> NoError]

\* AverageMetric.update that keeps mean_old at the first value
AverageUpdateKeepsMeanOld(self, value, num_samples) ==
    LET s1 == [self EXCEPT !.value = value,
                           !.n = self.n + 1,
                           !.num_samples = self.num_samples + num_samples]
    IN IF s1.n = 1
       THEN [obj |-> [s1 EXCEPT !.mean = FAdd(Zero, value),
                                !.std = Zero,
                                !.mean_old = FAdd(Zero, value),
                                !.m_s = Zero],
             err |-> NoError]
       ELSE IF s1.num_samples = 0
       THEN [obj |-> s1, err |-> "ZeroDivisionError"]
       ELSE
       LET mean == FAdd(s1.mean_old,
                        FDiv(FMul(FSub(value, s1.mean_old), FromInt(num_samples)),
                             FromInt(s1.num_samples)))
           m_s == FAdd(s1.m_s,
                       FMul(FMul(FSub(value, s1.mean_old), FSub(value, mean)),
                            FromInt(num_samples)))
           s2 == [s1 EXCEPT !.mean = mean, !.m_s = m_s]
       IN IF s1.num_samples - 1 = 0
          THEN [obj |-> s2, err |-> "ZeroDivisionError"]
          ELSE [obj |-> [s2 EXCEPT !.std =
                            Sqrt(FDiv(m_s, FromInt(s1.num_samples - 1)))],
                err |-> NoError]

\* AverageMetric.update(value, num_samples): the object after the call and the
\* error raised, if any.  An error leaves the assignments made before it.
AverageUpdate(self, value, num_samples) ==
    LET s1 == [self EXCEPT !.value = value,
                           !.n = self.n + 1,
                           !.num_samples = self.num_samples + num_samples]
    IN IF s1.n = 1
       THEN [obj |-> [s1 EXCEPT !.mean = FAdd(Zero, value),
                                !.std = Zero,
                                !.mean_old = FAdd(Zero, value),
                                !.m_s = Zero],
             err |-> NoError]
       ELSE IF s1.num_samples = 0
       THEN \* ... / float(self.num_samples)
            [obj |-> s1, err |-> "ZeroDivisionError"]
       ELSE
       LET mean == FAdd(s1.mean_old,
                        FDiv(FMul(FSub(value, s1.mean_old), FromInt(num_samples)),
                             FromInt(s1.num_samples)))
           m_s == FAdd(s1.m_s,
                       FMul(FMul(FSub(value, s1.mean_old), FSub(value, mean)),
                            FromInt(num_samples)))
           s2 == [s1 EXCEPT !.mean = mean, !.m_s = m_s, !.mean_old = mean]
       IN IF s1.num_samples - 1 = 0
          THEN \* self.m_s / (self.num_samples - 1.0)
               [obj |-> s2, err |-> "ZeroDivisionError"]
          ELSE [obj |-> [s2 EXCEPT !.std =
                            Sqrt(FDiv(m_s, FromInt(s1.num_samples - 1)))],
                err |-> NoError]

\* AverageMetric.compute
Compute(self) == <<self.mean, self.std>>

\* A compute() that clears the accumulated state once it has read it
ComputeCallResets(self) ==
    [obj |-> Reset(self), ret |-> <<Compute(self)>>, err |-> NoError]

\* The call metric.compute(): the object after it, the pair returned
ComputeCall(self) ==
    [obj |-> self, ret |-> <<Compute(self)>>, err |-> NoError]

Min(a, b) == IF a < b THEN a ELSE b

\* zip(targets, logits): as long as the shorter of the two
Zip(targets, logits) ==
    [i \in 1..Min(Len(targets), Len(logits)) |-> <<targets[i], logits[i]>>]

\* The comparison with the threshold 0 counted as positive
AccuracyThresholdInclusive(logits, targets) ==
    LET z == Zip(targets, logits)
    IN [i \in 1..Len(z) |-> (z[i][1] >= 0) = (z[i][2] >= 0)]

\* [(yi > 0) == (li.data > 0) for yi, li in zip(targets, logits)]
Accuracy(logits, targets) ==
    LET z == Zip(targets, logits)
    IN [i \in 1..Len(z) |-> (z[i][1] > 0) = (z[i][2] > 0)]

\* sum(accuracy): True counts 1
RECURSIVE Sum(_)
Sum(accuracy) ==
    IF accuracy = <<>> THEN 0
    ELSE (IF Head(accuracy) THEN 1 ELSE 0) + Sum(Tail(accuracy))

\* What AccuracyMetric.update passes to AverageMetric.update; fwd is <<>> when
\* the division sum(accuracy) / len(accuracy) raises first.
AccuracyArgs(logits, targets) ==
    LET accuracy == Accuracy(logits, targets)
    IN IF Len(accuracy) = 0
       THEN [fwd |-> <<>>, err |-> "ZeroDivisionError"]
       ELSE [fwd |-> <<[value |-> Rat(Sum(accuracy), Len(accuracy)),
                        num_samples |-> Len(accuracy)]>>,
             err |-> NoError]

\* AccuracyMetric.update(logits, targets)
AccuracyUpdate(self, logits, targets) ==
    LET a == AccuracyArgs(logits, targets)
    IN IF a.err # NoError
       THEN [obj |-> self, err |-> a.err]
       ELSE AverageUpdate(self, a.fwd[1].value, a.fwd[1].num_samples)

\* AccuracyMetric.compute_key_value with the two values under each other's key
ComputeKeyValueSwapped(cls, self) ==
    IF cls = "AccuracyMetric"
    THEN [obj |-> self,
          ret |-> <<[accuracy_mean |-> Compute(self)[2],
                     accuracy_std |-> Compute(self)[1]]>>,
          err |-> NoError]
    ELSE [obj |-> self, ret |-> <<>>, err |-> "NotImplementedError"]

\* compute_key_value: AverageMetric raises NotImplementedError, AccuracyMetric
\* calls super().compute() and returns the two-entry mapping.
ComputeKeyValue(cls, self) ==
    IF cls = "AccuracyMetric"
    THEN LET Mapping(c) ==
                 [obj |-> c.obj,
                  ret |-> <<[accuracy_mean |-> c.ret[1][1],
                             accuracy_std |-> c.ret[1][2]]>>,
                  err |-> NoError]
         IN Mapping(ComputeCall(self))
    ELSE [obj |-> self, ret |-> <<>>, err |-> "NotImplementedError"]

\* self.update(*args, **kwargs): dispatch on the object's class
Update(cls, self, a, b) ==
    IF cls = "AccuracyMetric"
    THEN AccuracyUpdate(self, a, b)
    ELSE AverageUpdate(self, a, b)

\* IMetric.__call__ that returns compute() whatever compute_on_call says
CallIgnoresFlag(cls, self, a, b) ==
    LET Then(u) ==
            [obj |-> u.obj,
             err |-> u.err,
             ret |-> IF u.err = NoError THEN <<Compute(u.obj)>> ELSE <<>>]
    IN Then(Update(cls, self, a, b))

\* IMetric.__call__: update, then compute() if compute_on_call (else None)
Call(cls, self, a, b) ==
    LET Then(u) ==
            [obj |-> u.obj,
             err |-> u.err,
             ret |-> IF u.err = NoError /\ u.obj.compute_on_call
                     THEN <<Compute(u.obj)>>
                     ELSE <<>>]
    IN Then(Update(cls, self, a, b))

\* One invocation of the metric's update, directly or through __call__
Invoke(via, cls, self, a, b) ==
    IF via = "__call__"
    THEN Call(cls, self, a, b)
    ELSE LET Then(u) == [obj |-> u.obj, err |-> u.err, ret |-> <<>>]
         IN Then(Update(cls, self, a, b))

----------------------------------------------------------------------------
(* Inputs of the metric *)

Values == {Rat(-1, 1), Rat(1, 2), Rat(2, 1)}
Weights == {0, 1, 2}
\* logits (their .data) and targets: the empty sequence, sequences of one to
\* three elements on both sides of the threshold 0 and on it
Batches ==
    {<<>>, <<1>>, <<-1>>, <<0>>, <<1, -1>>, <<0, 1>>,
     <<1, -1, 1>>, <<1, 1, -1>>}
Vias == {"update", "__call__"}

MLast(op, a, b, r) == [op |-> op, a |-> a, b |-> b, ret |-> r.ret, err |-> r.err]
NoResult == [ret |-> <<>>, err |-> NoError]

----------------------------------------------------------------------------
(* The metric's operations *)

MetricInit ==
    /\ kind \in {"AverageMetric", "AccuracyMetric"}
    /\ \E c \in BOOLEAN : metric = Construct(c)
    /\ hist = <<>>
    /\ pre = metric
    /\ mlast = MLast("__init__", <<>>, <<>>, NoResult)
    /\ was_reset = FALSE

\* metric.update(value, num_samples) or metric(value, num_samples)
MUpdate(via, value, num_samples) ==
    /\ kind = "AverageMetric"
    /\ metric.n < MaxUpdates
    /\ \E r \in {Invoke(via, kind, metric, value, num_samples)} :
         /\ metric' = r.obj
         /\ mlast' = MLast(via, <<value>>, <<num_samples>>, r)
    /\ hist' = Append(hist, [value |-> value, num_samples |-> num_samples])
    /\ pre' = metric
    /\ UNCHANGED <<kind, was_reset>>
    /\ UNCHANGED engineVars

\* metric.update(logits, targets) or metric(logits, targets)
MAccUpdate(via, logits, targets) ==
    /\ kind = "AccuracyMetric"
    /\ metric.n < MaxAccUpdates
    /\ \E r \in {Invoke(via, kind, metric, logits, targets)} :
         /\ metric' = r.obj
         /\ mlast' = MLast(via, logits, targets, r)
    /\ hist' = hist \o AccuracyArgs(logits, targets).fwd
    /\ pre' = metric
    /\ UNCHANGED <<kind, was_reset>>
    /\ UNCHANGED engineVars

\* metric.reset()
MReset ==
    /\ metric' = Reset(metric)
    /\ hist' = <<>>
    /\ pre' = metric
    /\ mlast' = MLast("reset", <<>>, <<>>, NoResult)
    /\ was_reset' = (was_reset \/ metric.n > 0)
    /\ UNCHANGED kind
    /\ UNCHANGED engineVars

\* metric.compute()
MCompute ==
    /\ \E r \in {ComputeCall(metric)} :
         /\ metric' = r.obj
         /\ mlast' = MLast("compute", <<>>, <<>>, r)
    /\ pre' = metric
    /\ UNCHANGED <<kind, hist, was_reset>>
    /\ UNCHANGED engineVars

\* metric.compute_key_value()
MComputeKeyValue ==
    /\ \E r \in {ComputeKeyValue(kind, metric)} :
         /\ metric' = r.obj
         /\ mlast' = MLast("compute_key_value", <<>>, <<>>, r)
    /\ pre' = metric
    /\ UNCHANGED <<kind, hist, was_reset>>
    /\ UNCHANGED engineVars

AverageNext ==
    \/ \E via \in Vias, v \in Values, w \in Weights : MUpdate(via, v, w)
    \/ MReset
    \/ MCompute
    \/ MComputeKeyValue

AccuracyNext ==
    \/ \E via \in Vias, l \in Batches, t \in Batches : MAccUpdate(via, l, t)
    \/ MReset
    \/ MCompute
    \/ MComputeKeyValue

----------------------------------------------------------------------------
(* engine.py: Engine *)

\* Opaque values are sequences of tags; None is the empty one.
None == <<>>

\* A factory argument of init_components: None (the default), a callable that
\* returns a value built from its tag and its argument, or one that raises the
\* error its tag names.
NoFactory == [kind |-> "none", tag |-> ""]
Returning(tag) == [kind |-> "returns", tag |-> tag]
Raising(tag) == [kind |-> "raises", tag |-> tag]

\* Engine.rank of a process that takes itself for the main one of a group
RankOfMainProcess(self) == 0

\* Engine.rank and Engine.world_size, read on an engine whose attributes are
\* self
Rank(self) == -1
WorldSize(self) == 1

\* Engine.sync_device, Engine.sync_tensor
SyncDevice(tensor_or_module) == tensor_or_module
SyncTensor(tensor) == tensor

\* Engine.deinit_components: the engine's attributes after the call
DeinitComponents(self) == self

\* The call fn(**kwargs) at one line of init_components: the value returned,
\* the error raised, and the invocation as the factory saw it (none when fn is
\* None: calling None raises TypeError at the call site).
Apply(name, fn, kwargs) ==
    IF fn.kind = "none"
    THEN [out |-> None, err |-> "TypeError", log |-> <<>>]
    ELSE LET received ==
                 IF DOMAIN kwargs = {} THEN None
                 ELSE kwargs[CHOOSE k \in DOMAIN kwargs : TRUE]
             out == IF fn.kind = "returns" THEN <<fn.tag>> \o received ELSE None
         IN [out |-> out,
             err |-> IF fn.kind = "raises" THEN fn.tag ELSE NoError,
             log |-> <<[fn |-> name, kwargs |-> kwargs, out |-> out]>>]

NoKwargs == [k \in {} |-> None]

\* Engine.init_components with criterion_fn and optimizer_fn called in the
\* other order
InitComponentsSwapped(model_fn, criterion_fn, optimizer_fn, scheduler_fn) ==
    LET c1 == Apply("model_fn", model_fn, NoKwargs)
        c3 == Apply("optimizer_fn", optimizer_fn, [model |-> c1.out])
        c2 == Apply("criterion_fn", criterion_fn, NoKwargs)
        c4 == Apply("scheduler_fn", scheduler_fn, [optimizer |-> c3.out])
    IN IF c1.err # NoError
       THEN [ret |-> <<>>, err |-> c1.err, log |-> c1.log]
       ELSE IF c3.err # NoError
       THEN [ret |-> <<>>, err |-> c3.err, log |-> c1.log \o c3.log]
       ELSE IF c2.err # NoError
       THEN [ret |-> <<>>, err |-> c2.err, log |-> c1.log \o c3.log \o c2.log]
       ELSE IF c4.err # NoError
       THEN [ret |-> <<>>, err |-> c4.err,
             log |-> c1.log \o c3.log \o c2.log \o c4.log]
       ELSE [ret |-> <<<<c1.out, c2.out, c3.out, c4.out>>>>, err |-> NoError,
             log |-> c1.log \o c3.log \o c2.log \o c4.log]

\* Engine.init_components that carries on with a null component when a factory
\* raises
InitComponentsCatching(model_fn, criterion_fn, optimizer_fn, scheduler_fn) ==
    LET c1 == Apply("model_fn", model_fn, NoKwargs)
        c2 == Apply("criterion_fn", criterion_fn, NoKwargs)
        c3 == Apply("optimizer_fn", optimizer_fn, [model |-> c1.out])
        c4 == Apply("scheduler_fn", scheduler_fn, [optimizer |-> c3.out])
    IN [ret |-> <<<<c1.out, c2.out, c3.out, c4.out>>>>,
        err |-> NoError,
        log |-> c1.log \o c2.log \o c3.log \o c4.log]

\* Engine.init_components: the bundle returned (ret), the error that left the
\* call (err), and the factory invocations made, in order (log).
InitComponents(model_fn, criterion_fn, optimizer_fn, scheduler_fn) ==
    LET c1 == Apply("model_fn", model_fn, NoKwargs)
        model == c1.out
        c2 == Apply("criterion_fn", criterion_fn, NoKwargs)
        criterion == c2.out
        c3 == Apply("optimizer_fn", optimizer_fn, [model |-> model])
        optimizer == c3.out
        c4 == Apply("scheduler_fn", scheduler_fn, [optimizer |-> optimizer])
        scheduler == c4.out
    IN IF c1.err # NoError
       THEN [ret |-> <<>>, err |-> c1.err, log |-> c1.log]
       ELSE IF c2.err # NoError
       THEN [ret |-> <<>>, err |-> c2.err, log |-> c1.log \o c2.log]
       ELSE IF c3.err # NoError
       THEN [ret |-> <<>>, err |-> c3.err, log |-> c1.log \o c2.log \o c3.log]
       ELSE IF c4.err # NoError
       THEN [ret |-> <<>>, err |-> c4.err,
             log |-> c1.log \o c2.log \o c3.log \o c4.log]
       ELSE [ret |-> <<<<model, criterion, optimizer, scheduler>>>>,
             err |-> NoError,
             log |-> c1.log \o c2.log \o c3.log \o c4.log]

FixedKeys == {"model", "criterion", "optimizer", "scheduler"}

\* The value bound to a named parameter of default None by a call with the
\* keyword arguments kw
Param(kw, name) == IF name \in DOMAIN kw THEN kw[name] ELSE None

\* **kwargs: the keyword arguments no named parameter takes
Kwargs(kw) == [k \in (DOMAIN kw) \ FixedKeys |-> kw[k]]

\* Engine.pack_checkpoint that leaves out the keys of absent components
PackCheckpointSparse(kw) == kw

\* Engine.pack_checkpoint called with the keyword arguments kw: the dict
\* display, in which a later entry (**kwargs) replaces an earlier one.
PackCheckpoint(kw) ==
    Kwargs(kw) @@ [model |-> Param(kw, "model"),
                   criterion |-> Param(kw, "criterion"),
                   optimizer |-> Param(kw, "optimizer"),
                   scheduler |-> Param(kw, "scheduler")]

\* Engine.unpack_checkpoint that hands the loaded components back through the
\* caller's slots
UnpackCheckpointRebinding(dump, checkpoint, kw) ==
    IF FixedKeys \subseteq DOMAIN checkpoint
    THEN [dump |-> dump,
          after |-> [checkpoint |-> checkpoint,
                     caller |-> [k \in FixedKeys |-> checkpoint[k]] @@ kw],
          locals |-> [k \in FixedKeys |-> checkpoint[k]],
          ret |-> <<>>, err |-> NoError]
    ELSE [dump |-> dump,
          after |-> [checkpoint |-> checkpoint, caller |-> kw],
          locals |-> [k \in FixedKeys |-> Param(kw, k)],
          ret |-> <<>>, err |-> "KeyError"]

\* Engine.unpack_checkpoint(checkpoint, **kw) on an engine whose
\* _checkpoint_dump is dump.  The four assignments bind the function's own
\* names (locals), each after the one before it, and checkpoint[k] raises
\* KeyError for a missing key; the caller's values (caller), the checkpoint
\* and the engine's attribute are what they were.  Returns None.
UnpackCheckpoint(dump, checkpoint, kw) ==
    LET given == [k \in FixedKeys |-> Param(kw, k)]
        order == <<"model", "criterion", "optimizer", "scheduler">>
        missing == {i \in 1..4 : order[i] \notin DOMAIN checkpoint}
        done == IF missing = {} THEN 4
                ELSE (CHOOSE i \in missing : \A j \in missing : i <= j) - 1
        bound == {order[i] : i \in 1..done}
    IN [dump |-> dump,
        after |-> [checkpoint |-> checkpoint, caller |-> kw],
        locals |-> [k \in FixedKeys |->
                      IF k \in bound THEN checkpoint[k] ELSE given[k]],
        ret |-> <<>>,
        err |-> IF missing = {} THEN NoError ELSE "KeyError"]

\* Engine.save_checkpoint that keeps the first checkpoint saved
SaveCheckpointOnce(dump, checkpoint, path) ==
    IF dump = <<>> THEN <<checkpoint>> ELSE dump

\* Engine.save_checkpoint: the new value of self._checkpoint_dump
SaveCheckpoint(dump, checkpoint, path) == <<checkpoint>>

\* Engine.load_checkpoint: reading the attribute before any save has set it
\* raises AttributeError.
LoadCheckpoint(dump, path) ==
    IF dump = <<>>
    THEN [ret |-> <<>>, err |-> "AttributeError"]
    ELSE [ret |-> dump, err |-> NoError]

----------------------------------------------------------------------------
(* Inputs of the engine *)

Paths == {"p", "q"}
ExtensionKeys == {"extra_key"}
\* keyword arguments of pack_checkpoint: any subset of the four components and
\* of the extension keys, each key with a value of its own
Keywords ==
    {[k \in D |-> <<k>>] : D \in SUBSET (FixedKeys \cup ExtensionKeys)}
Checkpoints ==
    {PackCheckpoint(NoKwargs),
     PackCheckpoint([model |-> <<"M">>, criterion |-> <<"C">>,
                     optimizer |-> <<"O">>, scheduler |-> <<"S">>]),
     PackCheckpoint([model |-> <<"M">>, extra_key |-> <<"1">>])}
\* the error a raising factory raises, one for each parameter
ErrorOf(tag) ==
    CASE tag = "m" -> "ModelError"
      [] tag = "c" -> "CriterionError"
      [] tag = "o" -> "OptimizerError"
      [] OTHER -> "SchedulerError"
Factories(tag) == {NoFactory, Returning(tag), Raising(ErrorOf(tag))}
\* checkpoints handed to unpack_checkpoint: packed ones, and a mapping that
\* lacks fixed keys
Unpackables == Checkpoints \cup {[model |-> <<"M">>]}
\* the caller's components handed to unpack_checkpoint by keyword
Slots ==
    {[k \in D |-> <<k>>] : D \in SUBSET {"model", "optimizer"}}
Tensors == {None, <<"t">>}

\* The last call: its arguments, what it returned (ret) or raised (err), the
\* factory invocations it made (log) and, for a call that is handed mutable
\* arguments, those arguments as the caller sees them afterwards (after).
ELast(op, path, arg, fns, kw, r, log) ==
    [op |-> op, path |-> path, arg |-> arg, fns |-> fns, kw |-> kw,
     ret |-> r.ret, err |-> r.err, log |-> log,
     after |-> IF "after" \in DOMAIN r THEN <<r.after>> ELSE <<>>]
EPrev(e) == [op |-> e.op, path |-> e.path, arg |-> e.arg]

----------------------------------------------------------------------------
(* The engine's operations *)

EngineInit ==
    /\ checkpoint_dump = <<>>
    /\ saved = [p \in Paths |-> <<>>]
    /\ elast = ELast("__init__", "", <<>>, <<>>, NoKwargs, NoResult, <<>>)
    /\ eprev = EPrev(elast)

\* engine.init_components(model_fn, criterion_fn, optimizer_fn, scheduler_fn)
EInitComponents(model_fn, criterion_fn, optimizer_fn, scheduler_fn) ==
    /\ LET r == InitComponents(model_fn, criterion_fn, optimizer_fn, scheduler_fn)
       IN elast' = ELast("init_components", "", <<>>,
                         <<model_fn, criterion_fn, optimizer_fn, scheduler_fn>>,
                         NoKwargs, r, r.log)
    /\ eprev' = EPrev(elast)
    /\ UNCHANGED <<checkpoint_dump, saved>>
    /\ UNCHANGED metricVars

\* engine.pack_checkpoint(**kw)
EPackCheckpoint(kw) ==
    /\ elast' = ELast("pack_checkpoint", "", <<>>, <<>>, kw,
                      [ret |-> <<PackCheckpoint(kw)>>, err |-> NoError], <<>>)
    /\ eprev' = EPrev(elast)
    /\ UNCHANGED <<checkpoint_dump, saved>>
    /\ UNCHANGED metricVars

\* engine.save_checkpoint(checkpoint, path)
ESaveCheckpoint(checkpoint, path) ==
    /\ checkpoint_dump' = SaveCheckpoint(checkpoint_dump, checkpoint, path)
    /\ saved' = [saved EXCEPT ![path] = <<checkpoint>>]
    /\ elast' = ELast("save_checkpoint", path, <<checkpoint>>, <<>>, NoKwargs,
                      NoResult, <<>>)
    /\ eprev' = EPrev(elast)
    /\ UNCHANGED metricVars

\* engine.load_checkpoint(path)
ELoadCheckpoint(path) ==
    /\ elast' = ELast("load_checkpoint", path, <<>>, <<>>, NoKwargs,
                      LoadCheckpoint(checkpoint_dump, path), <<>>)
    /\ eprev' = EPrev(elast)
    /\ UNCHANGED <<checkpoint_dump, saved>>
    /\ UNCHANGED metricVars

\* engine.unpack_checkpoint(checkpoint, **kw)
EUnpackCheckpoint(checkpoint, kw) ==
    /\ \E r \in {UnpackCheckpoint(checkpoint_dump, checkpoint, kw)} :
         /\ checkpoint_dump' = r.dump
         /\ elast' = ELast("unpack_checkpoint", "", <<checkpoint>>, <<>>, kw,
                           r, <<>>)
    /\ eprev' = EPrev(elast)
    /\ UNCHANGED saved
    /\ UNCHANGED metricVars

\* engine.rank
ERank ==
    /\ elast' = ELast("rank", "", <<>>, <<>>, NoKwargs,
                      [ret |-> <<Rank(checkpoint_dump)>>, err |-> NoError],
                      <<>>)
    /\ eprev' = EPrev(elast)
    /\ UNCHANGED <<checkpoint_dump, saved>>
    /\ UNCHANGED metricVars

\* engine.world_size
EWorldSize ==
    /\ elast' = ELast("world_size", "", <<>>, <<>>, NoKwargs,
                      [ret |-> <<WorldSize(checkpoint_dump)>>,
                       err |-> NoError],
                      <<>>)
    /\ eprev' = EPrev(elast)
    /\ UNCHANGED <<checkpoint_dump, saved>>
    /\ UNCHANGED metricVars

\* engine.sync_device(tensor_or_module)
ESyncDevice(tensor_or_module) ==
    /\ elast' = ELast("sync_device", "", <<tensor_or_module>>, <<>>, NoKwargs,
                      [ret |-> <<SyncDevice(tensor_or_module)>>,
                       err |-> NoError],
                      <<>>)
    /\ eprev' = EPrev(elast)
    /\ UNCHANGED <<checkpoint_dump, saved>>
    /\ UNCHANGED metricVars

\* engine.sync_tensor(tensor)
ESyncTensor(tensor) ==
    /\ elast' = ELast("sync_tensor", "", <<tensor>>, <<>>, NoKwargs,
                      [ret |-> <<SyncTensor(tensor)>>, err |-> NoError],
                      <<>>)
    /\ eprev' = EPrev(elast)
    /\ UNCHANGED <<checkpoint_dump, saved>>
    /\ UNCHANGED metricVars

\* engine.deinit_components()
EDeinitComponents ==
    /\ checkpoint_dump' = DeinitComponents(checkpoint_dump)
    /\ elast' = ELast("deinit_components", "", <<>>, <<>>, NoKwargs,
                      NoResult, <<>>)
    /\ eprev' = EPrev(elast)
    /\ UNCHANGED saved
    /\ UNCHANGED metricVars

EngineNext ==
    \/ \E mf \in Factories("m"), cf \in Factories("c"),
          of \in Factories("o"), sf \in Factories("s") :
            EInitComponents(mf, cf, of, sf)
    \/ \E kw \in Keywords : EPackCheckpoint(kw)
    \/ \E c \in Unpackables, kw \in Slots : EUnpackCheckpoint(c, kw)
    \/ \E c \in Checkpoints, p \in Paths : ESaveCheckpoint(c, p)
    \/ \E p \in Paths : ELoadCheckpoint(p)
    \/ ERank
    \/ EWorldSize
    \/ \E t \in Tensors : ESyncDevice(t)
    \/ \E t \in Tensors : ESyncTensor(t)
    \/ EDeinitComponents

----------------------------------------------------------------------------
(* Specifications.  The metric and the engine share no state: an            *)
(* AverageMetric, an AccuracyMetric and the Engine are each explored with   *)
(* the others as constructed.                                               *)

AverageSpecInit == MetricInit /\ kind = "AverageMetric" /\ EngineInit

AverageSpec == AverageSpecInit /\ [][AverageNext]_vars

AccuracySpecInit == MetricInit /\ kind = "AccuracyMetric" /\ EngineInit

AccuracySpec == AccuracySpecInit /\ [][AccuracyNext]_vars

EngineSpecInit ==
    /\ MetricInit /\ kind = "AverageMetric" /\ metric.compute_on_call
    /\ EngineInit

EngineSpec == EngineSpecInit /\ [][EngineNext]_vars

----------------------------------------------------------------------------
(* Claims about the engine's checkpoint store (EngineSpec) *)

OtherPath(p) == CHOOSE q \in Paths : q # p

\* C1: on the reference Engine, save_checkpoint(c, p) immediately followed by
\* load_checkpoint(p) returns a value equal to c, whatever calls came before.
C1_SaveThenLoad ==
    (/\ eprev.op = "save_checkpoint"
     /\ elast.op = "load_checkpoint"
     /\ elast.path = eprev.path)
        => (elast.err = NoError /\ elast.ret = eprev.arg)

\* C1's case: a load right after a save under the same path, after another
\* checkpoint had been saved before.
C1_Witness ==
    /\ eprev.op = "save_checkpoint"
    /\ elast.op = "load_checkpoint"
    /\ elast.path = eprev.path
    /\ elast.ret = eprev.arg
    /\ saved[OtherPath(elast.path)] # <<>>
    /\ saved[OtherPath(elast.path)] # eprev.arg

\* C2: the store is keyed by path: load_checkpoint(p) returns the checkpoint
\* most recently saved under p, so a save under another path q leaves what
\* load_checkpoint(p) returns unchanged.
C2_KeyedByPath ==
    (elast.op = "load_checkpoint" /\ saved[elast.path] # <<>>)
        => (elast.err = NoError /\ elast.ret = saved[elast.path])

\* C3: load_checkpoint(path) on a path never passed to save_checkpoint fails
\* (with a not-found error) and returns no checkpoint, before any save and
\* after saves under other paths.
C3_UnsavedPathFails ==
    (elast.op = "load_checkpoint" /\ saved[elast.path] = <<>>)
        => (elast.err # NoError /\ elast.ret = <<>>)

----------------------------------------------------------------------------
(* Claims about init_components and pack_checkpoint (EngineSpec) *)

FactoryOrder == <<"model_fn", "criterion_fn", "optimizer_fn", "scheduler_fn">>

\* C4: init_components accepts any subset of the four factories: a factory
\* left unset (None) yields a null slot in the returned bundle without error,
\* and every downstream factory that is set is still invoked and receives
\* that null as its argument.
C4_UnsetFactoryGivesNullSlot ==
    (/\ elast.op = "init_components"
     /\ \E i \in 1..4 : elast.fns[i].kind = "none"
     /\ \A i \in 1..4 : elast.fns[i].kind # "raises")
        => /\ elast.err = NoError
           /\ Len(elast.ret) = 1
           /\ \A i \in 1..4 :
                elast.fns[i].kind = "none" => elast.ret[1][i] = None
           /\ \A i \in 1..4 :
                elast.fns[i].kind = "returns" =>
                    \E j \in 1..Len(elast.log) :
                        elast.log[j].fn = FactoryOrder[i]

\* C5: init_components invokes the factories once each in the strict order
\* model_fn, criterion_fn, optimizer_fn, scheduler_fn (an invocation made is
\* never out of that order, and a call that returns has made all four);
\* optimizer_fn receives as model the value model_fn returned, scheduler_fn
\* receives as optimizer the value optimizer_fn returned, and the bundle
\* returned is the four returned values in the order (model, criterion,
\* optimizer, scheduler).
C5_FactoryOrderAndArguments ==
    elast.op = "init_components" =>
        LET log == elast.log
        IN /\ Len(log) <= 4
           /\ \A i \in 1..Len(log) : log[i].fn = FactoryOrder[i]
           /\ \A i \in 1..Len(log) :
                /\ i \in {1, 2} => DOMAIN log[i].kwargs = {}
                /\ i = 3 => /\ DOMAIN log[i].kwargs = {"model"}
                            /\ log[i].kwargs["model"] = log[1].out
                /\ i = 4 => /\ DOMAIN log[i].kwargs = {"optimizer"}
                            /\ log[i].kwargs["optimizer"] = log[3].out
           /\ elast.err = NoError =>
                /\ Len(log) = 4
                /\ elast.ret =
                     << <<log[1].out, log[2].out, log[3].out, log[4].out>> >>

\* C5's case: a call with all four factories returning, whose optimizer was
\* built from the model and whose scheduler from that optimizer.
C5_Witness ==
    /\ elast.op = "init_components"
    /\ elast.err = NoError
    /\ Len(elast.log) = 4
    /\ elast.ret = << << <<"m">>, <<"c">>, <<"o", "m">>, <<"s", "o", "m">> >> >>

\* C6: pack_checkpoint returns a mapping whose keys are exactly model,
\* criterion, optimizer, scheduler and the caller's extension keys: each fixed
\* key maps to the given component, or to null when none was given, each
\* extension key maps to its supplied value, and four components plus one
\* extension key give exactly five keys.
C6_PackCheckpointKeys ==
    elast.op = "pack_checkpoint" =>
        LET checkpoint == elast.ret[1]
            given == DOMAIN elast.kw
        IN /\ elast.err = NoError
           /\ DOMAIN checkpoint = FixedKeys \cup (given \ FixedKeys)
           /\ \A k \in FixedKeys :
                checkpoint[k] = IF k \in given THEN elast.kw[k] ELSE None
           /\ \A k \in given \ FixedKeys : checkpoint[k] = elast.kw[k]
           /\ (FixedKeys \subseteq given /\ Cardinality(given \ FixedKeys) = 1)
                => Cardinality(DOMAIN checkpoint) = 5

\* C6's case: a call that gives some components, leaves others out and adds
\* an extension key.
C6_Witness ==
    /\ elast.op = "pack_checkpoint"
    /\ "model" \in DOMAIN elast.kw
    /\ "optimizer" \notin DOMAIN elast.kw
    /\ "extra_key" \in DOMAIN elast.kw
    /\ elast.ret[1]["optimizer"] = None
    /\ elast.ret[1]["extra_key"] = <<"extra_key">>

----------------------------------------------------------------------------
(* Claims about AverageMetric (AverageSpec) *)

\* A newly constructed metric given the updates of h in order
RECURSIVE Replay(_, _)
Replay(obj, h) ==
    IF h = <<>> THEN obj
    ELSE Replay(AverageUpdate(obj, Head(h).value, Head(h).num_samples).obj,
                Tail(h))

\* C7: after any sequence of updates, reset() leaves the metric equal field by
\* field to a newly constructed one with the same compute_on_call (n = 0,
\* num_samples = 0, value = 0, mean_old = 0, m_s = 0, mean and std nan), so
\* that the operations applied after it give what they give on a new instance.
C7_ResetIsFresh ==
    /\ mlast.op = "reset" => metric = Construct(pre.compute_on_call)
    /\ metric = Replay(Construct(metric.compute_on_call), hist)

\* C7's case: a reset() of a metric that held two or more updates and a
\* nonzero sum of squared deviations.
C7_Witness ==
    /\ mlast.op = "reset"
    /\ pre.n >= 2
    /\ pre.m_s # Zero
    /\ pre.mean_old # Zero
    /\ metric.n = 0

\* C8: the first update(v, w) after construction or after any reset() gives
\* mean = v, std = 0, num_samples = w and n = 1, whatever updates came before
\* the reset.
C8_FirstUpdate ==
    (Len(hist) = 1 /\ mlast.op \in Vias) =>
        /\ mlast.err = NoError
        /\ metric.mean = hist[1].value
        /\ metric.std = Zero
        /\ metric.num_samples = hist[1].num_samples
        /\ metric.n = 1

\* C8's case: the first update after a reset() that followed other updates.
C8_Witness ==
    /\ was_reset
    /\ Len(hist) = 1
    /\ mlast.op \in Vias
    /\ hist[1].num_samples = 2
    /\ metric.mean = Rat(1, 2)

RECURSIVE SumW(_)
SumW(h) == IF h = <<>> THEN 0 ELSE Head(h).num_samples + SumW(Tail(h))

RECURSIVE SumWV(_)
SumWV(h) ==
    IF h = <<>> THEN Zero
    ELSE FAdd(FMul(FromInt(Head(h).num_samples), Head(h).value), SumWV(Tail(h)))

PositiveWeights(h) == \A i \in 1..Len(h) : h[i].num_samples > 0

\* C9: for every sequence of updates (v_i, w_i) with positive weights since
\* construction or the last reset, the running mean equals the direct weighted
\* average sum(w_i * v_i) / sum(w_i) and num_samples equals sum(w_i); two
\* updates (a, w), (b, w) give mean = (a + b) / 2 and num_samples = 2w.
C9_WeightedMean ==
    (hist # <<>> /\ PositiveWeights(hist)) =>
        /\ mlast.op \in Vias => mlast.err = NoError
        /\ metric.mean = FDiv(SumWV(hist), FromInt(SumW(hist)))
        /\ metric.num_samples = SumW(hist)
        /\ (Len(hist) = 2 /\ hist[1].num_samples = hist[2].num_samples) =>
             /\ metric.mean =
                  FDiv(FAdd(hist[1].value, hist[2].value), FromInt(2))
             /\ metric.num_samples = 2 * hist[1].num_samples

\* C9's case: three updates of different values and different positive weights.
C9_Witness ==
    /\ Len(hist) = 3
    /\ PositiveWeights(hist)
    /\ hist[1].num_samples # hist[2].num_samples
    /\ hist[1].value # hist[2].value
    /\ hist[2].value # hist[3].value
    /\ mlast.op \in Vias
    /\ metric.n = 3

\* C11: invoking the metric as a call makes exactly one update with the given
\* observation (the state after it is the state update alone leaves, whatever
\* compute_on_call is); when the update returns, the call returns compute() of
\* the state after the update if compute_on_call is true and nothing (None)
\* if it is false; an error of the update leaves the call as it is.
C11_CallUpdatesThenComputes ==
    mlast.op = "__call__" =>
        /\ metric.n = pre.n + 1
        /\ metric.value = mlast.a[1]
        /\ metric.num_samples = pre.num_samples + mlast.b[1]
        /\ metric = AverageUpdate(pre, mlast.a[1], mlast.b[1]).obj
        /\ mlast.err = AverageUpdate(pre, mlast.a[1], mlast.b[1]).err
        /\ (mlast.err = NoError /\ metric.compute_on_call)
             => mlast.ret = << <<metric.mean, metric.std>> >>
        /\ (mlast.err # NoError \/ ~metric.compute_on_call)
             => mlast.ret = <<>>

\* C11's case: a second call on a metric with compute_on_call, which returns
\* the mean and the std of both observations.
C11_Witness ==
    /\ mlast.op = "__call__"
    /\ metric.compute_on_call
    /\ metric.n = 2
    /\ metric.std # Zero
    /\ mlast.ret = << <<metric.mean, metric.std>> >>

\* The square of a value that Sqrt returned
Squared(x) ==
    IF x.k = "sqrt" THEN Rat(x.num, x.den) ELSE FMul(x, x)

\* sum of w_i * (v_i - m)^2 over the updates h
RECURSIVE SumSqDev(_, _)
SumSqDev(h, m) ==
    IF h = <<>> THEN Zero
    ELSE FAdd(FMul(FromInt(Head(h).num_samples),
                   FMul(FSub(Head(h).value, m), FSub(Head(h).value, m))),
              SumSqDev(Tail(h), m))

\* C17: after k >= 2 updates (v_i, w_i) since construction or the last reset,
\* m_s equals the sum of w_i * (v_i - mean)^2 about the current mean, and,
\* where the quotient is defined (num_samples > 1), std squared equals
\* m_s / (num_samples - 1): the divisor is the total weight less one, not the
\* number of updates less one.
C17_WeightedSquaredDeviations ==
    Len(hist) >= 2 =>
        /\ metric.m_s = SumSqDev(hist, metric.mean)
        /\ metric.num_samples > 1 =>
             Squared(metric.std) =
                 FDiv(metric.m_s, FromInt(metric.num_samples - 1))

\* C17's case: three updates of different values whose total weight less one
\* is not their number less one, with a std that is not zero.
C17_Witness ==
    /\ mlast.op \in Vias
    /\ Len(hist) = 3
    /\ metric.num_samples = 5
    /\ metric.m_s # Zero
    /\ Squared(metric.std) = FDiv(metric.m_s, FromInt(4))
    /\ Squared(metric.std) # FDiv(metric.m_s, FromInt(metric.n - 1))

\* C18: the n = 1 branch is a sufficient guard against division by zero: for
\* every sequence of updates with non-negative integer weights, whenever the
\* other branch runs both divisors, num_samples and num_samples - 1, are not
\* zero, so that no update after the first fails or leaves std undefined.
C18_FirstBranchGuardsDivisions ==
    (mlast.op \in Vias /\ metric.n >= 2) =>
        /\ metric.num_samples # 0
        /\ metric.num_samples - 1 # 0
        /\ mlast.err = NoError
        /\ metric.std # NaN

\* C20: in every reachable state of an AverageMetric, n is the number of
\* update calls and num_samples the sum of their weights since construction
\* or the last reset, value is the last value passed to update (the initial
\* 0 before any), and mean_old equals mean whenever n >= 1.
C20_CountersAndLastValue ==
    /\ metric.n = Len(hist)
    /\ metric.num_samples = SumW(hist)
    /\ metric.value = IF hist = <<>> THEN Zero ELSE hist[Len(hist)].value
    /\ metric.n >= 1 => metric.mean_old = metric.mean

\* C20's case: three updates after a reset, the last of which moved the mean.
C20_Witness ==
    /\ was_reset
    /\ mlast.op \in Vias
    /\ metric.n = 3
    /\ metric.num_samples = 4
    /\ metric.value # pre.value
    /\ metric.mean # pre.mean
    /\ metric.mean_old = metric.mean

----------------------------------------------------------------------------
(* Claims about AccuracyMetric (AccuracySpec) *)

\* C10: AccuracyMetric.update(predictions, targets) with sequences of
\* different lengths fails (with a length-mismatch error) and folds nothing
\* into the aggregate: n, num_samples, mean and std are unchanged.
C10_LengthMismatchFails ==
    (mlast.op \in Vias /\ Len(mlast.a) # Len(mlast.b)) =>
        /\ mlast.err # NoError
        /\ metric.n = pre.n
        /\ metric.num_samples = pre.num_samples
        /\ metric.mean = pre.mean
        /\ metric.std = pre.std

\* C12: compute() and compute_key_value() leave every field of the metric
\* unchanged (n, num_samples, value, mean, mean_old, m_s, std,
\* compute_on_call), in every state they are called in.
C12_ComputeReadsOnly ==
    mlast.op \in {"compute", "compute_key_value"} => metric = pre

\* C12's case: compute_key_value() on a metric that holds two updates.
C12_Witness ==
    /\ mlast.op = "compute_key_value"
    /\ pre.n = 2
    /\ pre.m_s # Zero
    /\ metric.n = 2

\* C13: in every state, including before any update and after reset,
\* compute_key_value() on an AccuracyMetric returns a mapping with exactly
\* the keys accuracy_mean and accuracy_std, whose values are the mean and the
\* std that compute() returns in that state.
C13_KeyValueOfAccuracy ==
    mlast.op = "compute_key_value" =>
        /\ mlast.err = NoError
        /\ Len(mlast.ret) = 1
        /\ DOMAIN mlast.ret[1] = {"accuracy_mean", "accuracy_std"}
        /\ mlast.ret[1]["accuracy_mean"] = metric.mean
        /\ mlast.ret[1]["accuracy_std"] = metric.std

\* C13's case: compute_key_value() after two batches of different accuracy.
C13_Witness ==
    /\ mlast.op = "compute_key_value"
    /\ metric.n = 2
    /\ metric.mean # metric.std
    /\ metric.std # Zero
    /\ mlast.ret[1]["accuracy_mean"] = metric.mean

\* The positions where prediction and target are on the same side of 0
Agreeing(predictions, targets) ==
    {i \in 1..Len(predictions) : (predictions[i] > 0) <=> (targets[i] > 0)}

\* C14: for equal-length non-empty sequences, AccuracyMetric.update passes to
\* the aggregator the value (number of positions where (prediction > 0) equals
\* (target > 0)) / length, with weight the length; predictions [1,-1,1]
\* against targets [1,1,-1] give 1/3 and, as a first update, mean = 1/3 with
\* num_samples = 3.
C14_AccuracyValueAndWeight ==
    (/\ mlast.op \in Vias
     /\ Len(mlast.a) = Len(mlast.b)
     /\ Len(mlast.a) > 0)
        => /\ mlast.err = NoError
           /\ metric.n = pre.n + 1
           /\ metric.value =
                Rat(Cardinality(Agreeing(mlast.a, mlast.b)), Len(mlast.a))
           /\ metric.num_samples = pre.num_samples + Len(mlast.a)
           /\ hist[Len(hist)] = [value |-> metric.value,
                                 num_samples |-> Len(mlast.a)]
           /\ (/\ mlast.a = <<1, -1, 1>>
               /\ mlast.b = <<1, 1, -1>>
               /\ pre.n = 0)
                => /\ metric.value = Rat(1, 3)
                   /\ metric.mean = Rat(1, 3)
                   /\ metric.num_samples = 3

\* C14's case: the documented example as a first update.
C14_Witness ==
    /\ mlast.op \in Vias
    /\ mlast.a = <<1, -1, 1>>
    /\ mlast.b = <<1, 1, -1>>
    /\ pre.n = 0
    /\ metric.mean = Rat(1, 3)

----------------------------------------------------------------------------
(* Claims about the rest of the engine (EngineSpec) *)

\* C15: unpack_checkpoint(checkpoint, bundle) is a no-op to its caller: for
\* every checkpoint that holds the four fixed keys the call returns nothing
\* without error, the caller's component slots and the checkpoint mapping are
\* afterwards what they were, and the engine's store is unchanged.
C15_UnpackIsNoOp ==
    [][(/\ elast'.op = "unpack_checkpoint"
        /\ FixedKeys \subseteq DOMAIN elast'.arg[1])
           => /\ elast'.err = NoError
              /\ elast'.ret = <<>>
              /\ elast'.after = <<[checkpoint |-> elast'.arg[1],
                                   caller |-> elast'.kw]>>
              /\ checkpoint_dump' = checkpoint_dump
              /\ saved' = saved]_vars

\* C15's case: an unpack, after a save, of a checkpoint whose model differs
\* from the one in the caller's slot.
C15_Witness ==
    /\ elast.op = "unpack_checkpoint"
    /\ elast.err = NoError
    /\ checkpoint_dump # <<>>
    /\ "model" \in DOMAIN elast.kw
    /\ elast.arg[1]["model"] # elast.kw["model"]
    /\ elast.after[1].caller = elast.kw

\* C16: rank is -1 and world_size is 1 in every reachable state of the
\* engine, read before or after any sequence of init_components, sync,
\* pack/unpack, save/load and deinit_components calls.
C16_RankAndWorldSize ==
    /\ Rank(checkpoint_dump) = -1
    /\ WorldSize(checkpoint_dump) = 1
    /\ elast.op = "rank" => elast.ret = <<-1>> /\ elast.err = NoError
    /\ elast.op = "world_size" => elast.ret = <<1>> /\ elast.err = NoError

\* C16's case: rank read on an engine that holds a checkpoint, right after
\* deinit_components.
C16_Witness ==
    /\ elast.op = "rank"
    /\ eprev.op = "deinit_components"
    /\ checkpoint_dump # <<>>
    /\ elast.ret = <<-1>>

FactoryIndex(name) == CHOOSE i \in 1..4 : FactoryOrder[i] = name

\* C19: if a factory that init_components invokes raises, the call raises
\* that same error and returns no bundle, the factory was invoked once, and
\* none of the factories after it was invoked.
C19_FactoryErrorPropagates ==
    elast.op = "init_components" =>
        \A i \in 1..Len(elast.log) :
            LET at == FactoryIndex(elast.log[i].fn)
            IN elast.fns[at].kind = "raises"
                 => /\ elast.err = elast.fns[at].tag
                    /\ elast.ret = <<>>
                    /\ i = Len(elast.log)
                    /\ \A j \in 1..Len(elast.log) :
                         FactoryIndex(elast.log[j].fn) = at => j = i
                    /\ \A j \in 1..Len(elast.log) :
                         FactoryIndex(elast.log[j].fn) <= at

\* C19's case: the optimizer factory raises after the model and the criterion
\* were built, and the scheduler factory, which is set, is never invoked.
C19_Witness ==
    /\ elast.op = "init_components"
    /\ elast.fns[3].kind = "raises"
    /\ elast.fns[4].kind = "returns"
    /\ elast.err = "OptimizerError"
    /\ Len(elast.log) = 3
    /\ elast.ret = <<>>

====
